---- MODULE Spec2Model ----
(***************************************************************************)
(* Model of the multipage-auth-dash-app: the credential store and the      *)
(* Flask-Login session (auth/authentication.py), the navigation guard      *)
(* (callbacks/layout_callbacks.py), the per-user storage helpers           *)
(* (file_io/file_utilities.py) and the upload callback                     *)
(* (callbacks/app/select_images_callbacks.py).                             *)
(*                                                                         *)
(* Python strings that the code inspects character by character (URL       *)
(* paths, file names, upload payloads) are sequences of one-character      *)
(* strings; strings the code only compares or stores (user names,          *)
(* passwords, messages) are TLA+ strings.                                  *)
(***************************************************************************)
EXTENDS Integers, Sequences, FiniteSets, TLC

VARIABLES
    page_registry,  \* dash.page_registry: the registered pages, in registry order
    users,          \* the User table: username -> hashed_password
    current_user,   \* flask_login.current_user of the one browser session
    user_dirs,      \* usernames u for which DEFAULT_USER_BASE_FOLDER/u exists
    image_dirs,     \* usernames u for which DEFAULT_USER_BASE_FOLDER/u/images exists
    images,         \* username -> names of the files in its images directory
    logged_out,     \* history: the guard handled a logout and login_user has not run since
    requests,       \* caller -> its register_user call, when callers run concurrently
    op,             \* the handler that ran last
    args,           \* its arguments
    result,         \* what it returned or raised
    calls           \* the calls it made, in order: <<function name, item index or 0>>

vars == <<page_registry, users, current_user, user_dirs, image_dirs, images,
          logged_out, requests, op, args, result, calls>>

-----------------------------------------------------------------------------
(* Bounds of the model *)

\* Longest upload batch that is enumerated
MaxBatch == 2

\* Largest n_clicks value of the logout menu item that is enumerated
MaxClicks == 2

-----------------------------------------------------------------------------
(* Python string operations on character sequences *)

\* s[i:] for a 1-based i
Drop(s, i) == SubSeq(s, i, Len(s))

\* str.endswith
EndsWith(s, suffix) ==
    /\ Len(suffix) <= Len(s)
    /\ SubSeq(s, Len(s) - Len(suffix) + 1, Len(s)) = suffix

\* `sub in s` for two strings
Contains(s, sub) ==
    \E i \in 1..(Len(s) - Len(sub) + 1) : SubSeq(s, i, i + Len(sub) - 1) = sub

\* str.lower on the letters that occur in the enumerated file names
LowerChar(c) ==
    CASE c = "E" -> "e"
      [] c = "G" -> "g"
      [] c = "J" -> "j"
      [] c = "P" -> "p"
      [] OTHER -> c

Lower(s) == [i \in 1..Len(s) |-> LowerChar(s[i])]

\* Truthiness of an Optional[int]: None and 0 are falsy
NoneInt == [none |-> TRUE, n |-> 0]

SomeInt(k) == [none |-> FALSE, n |-> k]

TruthyInt(x) == ~x.none /\ x.n # 0

\* Optional[List[str]]: None and [] are falsy
NoneList == [none |-> TRUE, list |-> <<>>]

SomeList(s) == [none |-> FALSE, list |-> s]

TruthyList(x) == ~x.none /\ Len(x.list) > 0

-----------------------------------------------------------------------------
(* URL paths and the page registry *)

P_login == <<"/", "l", "o", "g", "i", "n">>

P_register == <<"/", "r", "e", "g", "i", "s", "t", "e", "r">>

P_select_images == <<"/", "s", "e", "l", "e", "c", "t", "-", "i", "m", "a", "g", "e", "s">>

P_review_images == <<"/", "r", "e", "v", "i", "e", "w", "-", "i", "m", "a", "g", "e", "s">>

P_review == <<"/", "r", "e", "v", "i", "e", "w">>

P_home == <<"/">>

P_unknown == <<"/", "u", "n", "k", "n", "o", "w", "n">>

P_any == <<"/", "a", "n", "y">>

\* a path below an app page and a path that contains an auth page's path
P_select_images_sub == P_select_images \o <<"/", "1">>

P_x_login == <<"/", "x">> \o P_login

\* register_page(...) calls of the four pages
\* variant: the login page registered as an app page
PageLoginTaggedApp == [path |-> P_login, location |-> "app"]

PageLogin == [path |-> P_login, location |-> "auth"]

PageRegister == [path |-> P_register, location |-> "auth"]

PageSelectImages == [path |-> P_select_images, location |-> "app"]

PageReviewImages == [path |-> P_review_images, location |-> "app"]

\* The registry of the running application (Dash keeps it ordered by module name)
AppRegistry == <<PageReviewImages, PageSelectImages, PageLogin, PageRegister>>

\* The registry the guard's tests install: two more pages, one of them the home page
TestRegistry ==
    <<PageLogin, PageSelectImages, PageRegister,
      [path |-> P_review, location |-> "app"],
      PageReviewImages,
      [path |-> P_home, location |-> "home"]>>

Registries == {AppRegistry, TestRegistry}

\* The paths a navigation event may request
Pathnames ==
    {P_login, P_register, P_select_images, P_review_images, P_home, P_unknown,
     P_any, P_select_images_sub, P_x_login}

PROTECTED_LOCATIONS == {"app"}

AUTH_LOCATIONS == {"auth"}

\* Python None as a page location
NoLocation == "None"

\* _get_location: the location of the first registered page whose path is
\* contained in the pathname, None when there is none
GetLocation(registry, pathname) ==
    LET hits == {i \in 1..Len(registry) : Contains(pathname, registry[i].path)}
    IN  IF hits = {} THEN NoLocation
        ELSE LET first == CHOOSE i \in hits : \A j \in hits : i <= j
             IN  registry[first].location

-----------------------------------------------------------------------------
(* Session and credential store *)

Usernames == {"alice", "bob"}

Passwords == {"pw1", "pw2"}

\* flask_login's AnonymousUserMixin
AnonymousUser == [is_authenticated |-> FALSE, username |-> "None"]

\* variant: the session is marked authenticated but carries no username
SessionUserUnnamed(u) == [is_authenticated |-> TRUE, username |-> "None"]

\* a User row loaded into the session
SessionUser(u) == [is_authenticated |-> TRUE, username |-> u]

\* werkzeug generate_password_hash / check_password_hash
GeneratePasswordHash(password) == <<"hash", password>>

\* variant: the stored hash is never compared with the password
CheckPasswordHashAcceptsAny(hashed, password) == TRUE

CheckPasswordHash(hashed, password) == hashed = <<"hash", password>>

\* is_authenticated()
IsAuthenticated(cu) == cu.is_authenticated

\* What a session accessor does: return a value, or raise exception(message)
Gives(value) == [ok |-> TRUE, value |-> value, exception |-> "", message |-> ""]

RaisesException(exception, message) ==
    [ok |-> FALSE, value |-> "", exception |-> exception, message |-> message]

\* get_current_username
GetCurrentUsername(cu) ==
    IF ~IsAuthenticated(cu)
    THEN RaisesException("PermissionError", "No authenticated user found")
    ELSE Gives(cu.username)

\* logout(): logout_user() drops the user from the session
LogoutKeepsSession(cu) == cu

Logout(cu) == AnonymousUser

\* A lookup that never finds the user
UserNeverExists(table, username) == FALSE

\* User.query.filter_by(username=username).first() is not None
UserExists(table, username) == username \in DOMAIN table

NoUpdate == [kind |-> "no_update", pathname |-> <<>>]

RedirectTo(p) == [kind |-> "redirect", pathname |-> p]

Call(fn) == <<fn, 0>>

-----------------------------------------------------------------------------
(* The navigation guard *)

\* The branches of auth_guard_and_logout after the logout check
GuardDecisionAppOnly(user_authenticated, page_location) ==
    IF user_authenticated /\ page_location \notin PROTECTED_LOCATIONS
    THEN RedirectTo(P_select_images)
    ELSE IF ~user_authenticated /\ page_location \in PROTECTED_LOCATIONS
    THEN RedirectTo(P_login)
    ELSE NoUpdate

GuardDecisionAuthOnly(user_authenticated, page_location) ==
    IF user_authenticated /\ page_location \in AUTH_LOCATIONS
    THEN RedirectTo(P_select_images)
    ELSE IF ~user_authenticated /\ page_location \notin AUTH_LOCATIONS
    THEN RedirectTo(P_login)
    ELSE NoUpdate

GuardDecision(user_authenticated, page_location) ==
    IF user_authenticated /\ page_location \notin PROTECTED_LOCATIONS
    THEN RedirectTo(P_select_images)
    ELSE IF ~user_authenticated /\ page_location \notin AUTH_LOCATIONS
    THEN RedirectTo(P_login)
    ELSE NoUpdate

\* auth_guard_and_logout as a function of its inputs and the session:
\* the value returned, the session afterwards and the calls made
GuardClassifiesFirst(registry, cu, pathname, logout_clicks) ==
    LET decision == GuardDecision(IsAuthenticated(cu), GetLocation(registry, pathname))
    IN  IF decision.kind = "redirect"
        THEN [ret |-> decision, session |-> cu,
              calls |-> <<Call("is_authenticated"), Call("_get_location")>>]
        ELSE IF TruthyInt(logout_clicks)
        THEN [ret |-> RedirectTo(P_login), session |-> Logout(cu),
              calls |-> <<Call("is_authenticated"), Call("_get_location"), Call("logout")>>]
        ELSE [ret |-> NoUpdate, session |-> cu,
              calls |-> <<Call("is_authenticated"), Call("_get_location")>>]

Guard(registry, cu, pathname, logout_clicks) ==
    IF TruthyInt(logout_clicks)
    THEN [ret |-> RedirectTo(P_login), session |-> Logout(cu),
          calls |-> <<Call("logout")>>]
    ELSE [ret |-> GuardDecision(IsAuthenticated(cu), GetLocation(registry, pathname)),
          session |-> cu,
          calls |-> <<Call("is_authenticated"), Call("_get_location")>>]

AuthGuardAndLogout(pathname, logout_clicks) ==
    LET g == Guard(page_registry, current_user, pathname, logout_clicks)
    IN  /\ current_user' = g.session
        /\ logged_out' = (logged_out \/ TruthyInt(logout_clicks))
        /\ op' = "auth_guard_and_logout"
        /\ args' = [pathname |-> pathname, logout_clicks |-> logout_clicks,
                    authenticated |-> IsAuthenticated(current_user)]
        /\ result' = g.ret
        /\ calls' = g.calls
        /\ UNCHANGED <<requests, page_registry, users, user_dirs, image_dirs, images>>

-----------------------------------------------------------------------------
(* Registration and login *)

\* register_user
RegisterUser(username, password) ==
    /\ IF UserExists(users, username)
       THEN /\ result' = [success |-> FALSE, message |-> "Username already exists"]
            /\ users' = users
       ELSE /\ result' = [success |-> TRUE,
                          message |-> "Registration successful. You can now log in with your new account."]
            /\ users' = [u \in DOMAIN users \cup {username} |->
                            IF u = username THEN GeneratePasswordHash(password) ELSE users[u]]
    /\ op' = "register_user"
    /\ args' = [username |-> username, password |-> password]
    /\ calls' = <<>>
    /\ UNCHANGED <<requests, page_registry, current_user, user_dirs, image_dirs, images, logged_out>>

\* authenticate_user; mkdir_fails: the mkdir of create_user_directory raises
AuthenticateUser(username, password, mkdir_fails) ==
    /\ op' = "authenticate_user"
    /\ args' = [username |-> username, password |-> password]
    /\ IF ~UserExists(users, username) \/ ~CheckPasswordHash(users[username], password)
       THEN /\ result' = [success |-> FALSE, message |-> "Invalid username or password."]
            /\ calls' = <<>>
            /\ UNCHANGED <<current_user, user_dirs, logged_out>>
       ELSE \* login_user(user) is True for every UserMixin row (is_active)
            /\ current_user' = SessionUser(username)
            /\ logged_out' = FALSE
            /\ calls' = <<Call("login_user"), Call("create_user_directory")>>
            /\ IF mkdir_fails /\ username \notin user_dirs
               THEN /\ result' = [success |-> FALSE,
                                  message |-> "raised IOError: Failed to create user directory"]
                    /\ user_dirs' = user_dirs
               ELSE /\ result' = [success |-> TRUE, message |-> "Login successful. Redirecting..."]
                    /\ user_dirs' = user_dirs \cup {username}
    /\ UNCHANGED <<requests, page_registry, users, image_dirs, images>>

\* get_user_directory; dirs: the user directories that exist under the base
\* folder, each named by its username
GetUserDirectory(username, dirs) ==
    IF username \notin dirs
    THEN RaisesException("FileNotFoundError", "User directory does not exist")
    ELSE Gives(username)

\* A caller resolves the directory of a username; the disk is only read
GetUserDirectoryCall(username) ==
    /\ op' = "get_user_directory"
    /\ args' = [username |-> username, existed |-> username \in user_dirs]
    /\ result' = GetUserDirectory(username, user_dirs)
    /\ calls' = <<>>
    /\ UNCHANGED <<requests, page_registry, users, current_user, user_dirs, image_dirs, images,
                   logged_out>>

\* A caller asks the session for the current username
GetCurrentUsernameCall ==
    /\ op' = "get_current_username"
    /\ args' = [authenticated |-> IsAuthenticated(current_user)]
    /\ result' = GetCurrentUsername(current_user)
    /\ calls' = <<>>
    /\ UNCHANGED <<requests, page_registry, users, current_user, user_dirs, image_dirs, images,
                   logged_out>>

-----------------------------------------------------------------------------
(* Upload payloads: file names and "<header>,<base64 body>" content strings *)

F_a_png == <<"a", ".", "p", "n", "g">>

F_d_E_JPG == <<"d", "/", "E", ".", "J", "P", "G">>

F_c_txt == <<"c", ".", "t", "x", "t">>

F_f_jpeg == <<"f", ".", "j", "p", "e", "g">>

Header == <<"d", ":">>

\* base64 of the bytes 137 80 78, the start of a PNG signature
C_png == Header \o <<",", "i", "V", "B", "O">>

\* base64 of the bytes 65 66 67 ("ABC"), not an image
C_text == Header \o <<",", "Q", "U", "J", "D">>

\* no comma between header and body
C_nocomma == <<"i", "V", "B", "O">>

\* a comma and nothing after it
C_emptybody == Header \o <<",">>

\* a second comma inside the body of C_png
C_split == Header \o <<",", "i", "V", ",", "B", "O">>

F_b_tif == <<"b", ".", "t", "i", "f">>

F_g_TIF == <<"g", ".", "T", "I", "F">>

\* a name that climbs out of the directory it is joined to
F_up_e_tif == <<".", ".", "/", "e", ".", "t", "i", "f">>

\* The base64 alphabet, restricted to the characters of the enumerated bodies
B64Chars == {"B", "D", "J", "O", "Q", "U", "V", "i"}

B64Value(c) ==
    CASE c = "B" -> 1
      [] c = "D" -> 3
      [] c = "J" -> 9
      [] c = "O" -> 14
      [] c = "Q" -> 16
      [] c = "U" -> 20
      [] c = "V" -> 21
      [] c = "i" -> 34

RECURSIVE FilterChars(_, _)
FilterChars(s, keep) ==
    IF s = <<>> THEN <<>>
    ELSE (IF Head(s) \in keep THEN <<Head(s)>> ELSE <<>>) \o FilterChars(Tail(s), keep)

\* the three bytes of one group of four data characters
QuadBytes(q) ==
    LET n == B64Value(q[1]) * 262144 + B64Value(q[2]) * 4096
             + B64Value(q[3]) * 64 + B64Value(q[4])
    IN  <<n \div 65536, (n \div 256) % 256, n % 256>>

RECURSIVE DecodeQuads(_)
DecodeQuads(data) ==
    IF Len(data) < 4 THEN <<>>
    ELSE QuadBytes(SubSeq(data, 1, 4)) \o DecodeQuads(Drop(data, 5))

\* base64.b64decode(s) without validation: characters outside the alphabet are
\* discarded, whole groups are decoded, and a last group of two or three data
\* characters needs its padding
B64Decode(s) ==
    LET data == FilterChars(s, B64Chars)
        pads == Len(FilterChars(s, {"="}))
        rest == Len(data) % 4
        tail == SubSeq(data, Len(data) - rest + 1, Len(data))
    IN  IF rest = 0 THEN [ok |-> TRUE, bytes |-> DecodeQuads(data)]
        ELSE IF rest = 2 /\ pads >= 2
        THEN [ok |-> TRUE,
              bytes |-> DecodeQuads(data) \o SubSeq(QuadBytes(tail \o <<"B", "B">>), 1, 1)]
        ELSE IF rest = 3 /\ pads >= 1
        THEN [ok |-> TRUE,
              bytes |-> DecodeQuads(data) \o SubSeq(QuadBytes(tail \o <<"B">>), 1, 2)]
        ELSE [ok |-> FALSE, bytes |-> <<>>]

\* the position of the last comma of s, 0 when there is none
LastComma(s) ==
    IF \E i \in 1..Len(s) : s[i] = ","
    THEN CHOOSE i \in 1..Len(s) : s[i] = "," /\ \A j \in (i + 1)..Len(s) : s[j] # ","
    ELSE 0

\* the position of the first comma of s, 0 when there is none
FirstComma(s) ==
    IF \E i \in 1..Len(s) : s[i] = ","
    THEN CHOOSE i \in 1..Len(s) : s[i] = "," /\ \A j \in 1..(i - 1) : s[j] # ","
    ELSE 0

\* A step of the per-file pipeline either returns a value or raises; str(e) of
\* what it raises is <<error, detail>>
Returned(value) == [ok |-> TRUE, value |-> value, error |-> "", detail |-> <<>>]

Raises(error, detail) == [ok |-> FALSE, value |-> <<>>, error |-> error, detail |-> detail]

\* _validate_file_extension
valid_extensions ==
    <<<<".", "t", "i", "f">>, <<".", "t", "i", "f", "f">>, <<".", "p", "n", "g">>,
      <<".", "j", "p", "g">>, <<".", "j", "p", "e", "g">>>>

\* An extension check that compares the name as given
ValidateFileExtensionCaseSensitive(filename) ==
    IF \E k \in 1..Len(valid_extensions) : EndsWith(filename, valid_extensions[k])
    THEN Returned(<<>>)
    ELSE Raises("Unsupported file type: ", filename)

ValidateFileExtension(filename) ==
    IF \E k \in 1..Len(valid_extensions) : EndsWith(Lower(filename), valid_extensions[k])
    THEN Returned(<<>>)
    ELSE Raises("Unsupported file type: ", filename)

\* decode_base64_image
DecodeBase64Image(content_str) ==
    LET comma == FirstComma(content_str)
        decoded == B64Decode(Drop(content_str, comma + 1))
    IN  IF comma = 0
        THEN Raises("Failed to decode base64 image: ",
                    <<"Input string does not contain a comma to split header and data.">>)
        ELSE IF ~decoded.ok
        THEN Raises("Failed to decode base64 image: ", <<"Incorrect padding">>)
        ELSE IF decoded.bytes = <<>>
        THEN Raises("Failed to decode base64 image: ", <<"Decoded image content is empty.">>)
        ELSE Returned(decoded.bytes)

\* PIL's Image.open succeeds on bytes that start with an image signature
PngSignature == <<137, 80, 78>>

ImageOpens(bytes) ==
    Len(bytes) >= Len(PngSignature) /\ SubSeq(bytes, 1, Len(PngSignature)) = PngSignature

\* validate_image_content
ValidateImageContent(content) ==
    IF ImageOpens(content) THEN Returned(<<>>)
    ELSE Raises("Invalid image content: ", <<"cannot identify image file">>)

\* A file name used as it was given
BasenameKeepsPath(filename) == filename

\* Path(filename).name: what follows the last "/"
Basename(filename) ==
    LET slashes == {i \in 1..Len(filename) : filename[i] = "/"}
    IN  IF slashes = {} THEN filename
        ELSE Drop(filename, (CHOOSE i \in slashes : \A j \in slashes : j <= i) + 1)

\* save_image_from_bytes: the name of the file written into upload_dir;
\* write_fails: a file-system operation of the call raises
SaveImageFromBytes(content, filename, write_fails) ==
    IF write_fails \/ ~ImageOpens(content)
    THEN Raises("Failed to save image ", filename)
    ELSE Returned(Basename(filename))

-----------------------------------------------------------------------------
(* The upload callback *)

Min(a, b) == IF a <= b THEN a ELSE b

\* f"{filename}: {str(e)}", the entry of one file, and str(e) of an exception
\* that ended the whole batch
FileError(filename, e) ==
    [scope |-> "file", filename |-> filename, error |-> e.error, detail |-> e.detail]

BatchError(e) ==
    [scope |-> "batch", filename |-> <<>>, error |-> e.error, detail |-> e.detail]

\* The body of the for loop of _process_uploaded_images for item i: the try
\* block runs the four steps in order and stops at the first that raises
ItemOutcome(saved, name, e, i, steps) ==
    [saved |-> saved, name |-> name, e |-> e,
     calls |-> [k \in 1..Len(steps) |-> <<steps[k], i>>]]

SaveStep(content, filename, i, write_fails, sav) ==
    ItemOutcome(sav.ok, sav.value, sav, i,
                <<"_validate_file_extension", "decode_base64_image",
                  "validate_image_content", "save_image_from_bytes">>)

ValidateStep(content, filename, i, write_fails, val) ==
    IF ~val.ok
    THEN ItemOutcome(FALSE, <<>>, val, i,
                     <<"_validate_file_extension", "decode_base64_image",
                       "validate_image_content">>)
    ELSE SaveStep(content, filename, i, write_fails,
                  SaveImageFromBytes(content, filename, write_fails))

DecodeStep(filename, i, write_fails, dec) ==
    IF ~dec.ok
    THEN ItemOutcome(FALSE, <<>>, dec, i,
                     <<"_validate_file_extension", "decode_base64_image">>)
    ELSE ValidateStep(dec.value, filename, i, write_fails, ValidateImageContent(dec.value))

ExtensionStep(content, filename, i, write_fails, ext) ==
    IF ~ext.ok
    THEN ItemOutcome(FALSE, <<>>, ext, i, <<"_validate_file_extension">>)
    ELSE DecodeStep(filename, i, write_fails, DecodeBase64Image(content))

ProcessItem(content, filename, i, write_fails) ==
    ExtensionStep(content, filename, i, write_fails, ValidateFileExtension(filename))

\* saved_files.append(saved_path.name) / errors.append(f"{filename}: {str(e)}")
RecordOutcomeNewestFirst(acc, filename, o) ==
    [saved_files |-> IF o.saved THEN <<o.name>> \o acc.saved_files ELSE acc.saved_files,
     errors |-> IF o.saved THEN acc.errors ELSE <<FileError(filename, o.e)>> \o acc.errors,
     calls |-> acc.calls \o o.calls,
     written |-> IF o.saved THEN acc.written \cup {o.name} ELSE acc.written]

RecordOutcome(acc, filename, o) ==
    [saved_files |-> IF o.saved THEN Append(acc.saved_files, o.name) ELSE acc.saved_files,
     errors |-> IF o.saved THEN acc.errors ELSE Append(acc.errors, FileError(filename, o.e)),
     calls |-> acc.calls \o o.calls,
     written |-> IF o.saved THEN acc.written \cup {o.name} ELSE acc.written]

\* for content, filename in zip(contents, filenames), from item i on
\* write_fails[i]: a file-system operation of item i's save raises
RECURSIVE ProcessLoop(_, _, _, _, _)
ProcessLoop(contents, filenames, i, write_fails, acc) ==
    IF i > Min(Len(contents), Len(filenames)) THEN acc
    ELSE ProcessLoop(contents, filenames, i + 1, write_fails,
                     RecordOutcome(acc, filenames[i],
                                   ProcessItem(contents[i], filenames[i], i, write_fails[i])))

\* _process_uploaded_images: what it returns, or the exception it raises
\* before the loop
Processed(raised, e, done) ==
    [raised |-> raised, e |-> e, saved_files |-> done.saved_files,
     errors |-> done.errors, written |-> done.written, calls |-> done.calls]

ProcessUploadedImages(cu, dirs, contents, filenames, write_fails) ==
    LET before == [saved_files |-> <<>>, errors |-> <<>>, written |-> {},
                   calls |-> <<Call("get_current_username")>>]
        start == [before EXCEPT !.calls = Append(@, Call("get_user_directory"))]
    IN  IF cu.username = ""
        THEN Processed(TRUE, Raises("No authenticated user found", <<>>), before)
        ELSE IF cu.username \notin dirs
        THEN Processed(TRUE, Raises("User directory does not exist: ", <<cu.username>>),
                       start)
        ELSE Processed(FALSE, Returned(<<>>),
                       ProcessLoop(contents, filenames, 1, write_fails, start))

\* _upload_error_response, _empty_upload_response, _successful_upload_response
UploadErrorResponse(message, errors) ==
    [type |-> "error", message |-> message, valid_files |-> <<>>, errors |-> errors]

EmptyUploadResponse ==
    [type |-> "empty", message |-> "No files uploaded", valid_files |-> <<>>, errors |-> <<>>]

SuccessfulUploadResponse(upload_type, valid_files, errors) ==
    [type |-> upload_type, message |-> "Upload completed",
     valid_files |-> valid_files, errors |-> errors]

UnknownError == [scope |-> "batch", filename |-> <<>>,
                 error |-> "Unknown error occurred", detail |-> <<>>]

\* A response builder that reports success whenever a file was saved
UploadResponseIgnoresErrors(saved_files, errors) ==
    IF saved_files = <<>>
    THEN UploadErrorResponse("Upload failed", IF errors = <<>> THEN <<UnknownError>> ELSE errors)
    ELSE SuccessfulUploadResponse("success", saved_files, errors)

\* The response handle_image_upload builds from what the loop returned
UploadResponse(saved_files, errors) ==
    IF saved_files = <<>>
    THEN UploadErrorResponse("Upload failed", IF errors = <<>> THEN <<UnknownError>> ELSE errors)
    ELSE SuccessfulUploadResponse(IF errors # <<>> THEN "partial_success" ELSE "success",
                                  saved_files, errors)

\* handle_image_upload as a function of its inputs, the session and the disk:
\* the response, the calls made and the file names written
Handled(response, made, written) ==
    [response |-> response, calls |-> <<Call("is_authenticated")>> \o made,
     written |-> written]

HandleProcessed(p) ==
    IF p.raised
    THEN Handled(UploadErrorResponse("Upload failed", <<BatchError(p.e)>>), p.calls, {})
    ELSE Handled(UploadResponse(p.saved_files, p.errors), p.calls, p.written)

\* A handler that looks at the payload before it looks at the session
HandleUploadEmptyFirst(cu, dirs, contents, filenames, write_fails) ==
    IF ~TruthyList(contents) \/ ~TruthyList(filenames)
    THEN Handled(EmptyUploadResponse, <<>>, {})
    ELSE IF ~IsAuthenticated(cu)
    THEN Handled(UploadErrorResponse("You must be logged in to upload images.", <<>>),
                 <<>>, {})
    ELSE HandleProcessed(ProcessUploadedImages(cu, dirs, contents.list, filenames.list,
                                               write_fails))

\* A handler that treats only missing contents as an empty upload
HandleUploadContentsOnly(cu, dirs, contents, filenames, write_fails) ==
    IF ~IsAuthenticated(cu)
    THEN Handled(UploadErrorResponse("You must be logged in to upload images.", <<>>),
                 <<>>, {})
    ELSE IF ~TruthyList(contents)
    THEN Handled(EmptyUploadResponse, <<>>, {})
    ELSE HandleProcessed(ProcessUploadedImages(cu, dirs, contents.list, filenames.list,
                                               write_fails))

HandleUpload(cu, dirs, contents, filenames, write_fails) ==
    IF ~IsAuthenticated(cu)
    THEN Handled(UploadErrorResponse("You must be logged in to upload images.", <<>>),
                 <<>>, {})
    ELSE IF ~TruthyList(contents) \/ ~TruthyList(filenames)
    THEN Handled(EmptyUploadResponse, <<>>, {})
    ELSE HandleProcessed(ProcessUploadedImages(cu, dirs, contents.list, filenames.list,
                                               write_fails))

HandleImageUpload(contents, filenames, write_fails) ==
    \E h \in {HandleUpload(current_user, user_dirs, contents, filenames, write_fails)} :
    LET attempts == {k \in 1..Len(h.calls) : h.calls[k][1] = "save_image_from_bytes"}
        saves == {k \in attempts : ~write_fails[h.calls[k][2]]}
    IN  /\ op' = "handle_image_upload"
        /\ args' = [contents |-> contents, filenames |-> filenames, write_fails |-> write_fails]
        /\ result' = h.response
        /\ calls' = h.calls
        /\ IF IsAuthenticated(current_user)
           THEN /\ images' = [images EXCEPT ![current_user.username] = @ \cup h.written]
                \* save_image_from_bytes creates the images directory before it
                \* writes; a save that fails does so at the mkdir or after it
                /\ \E made \in (IF saves # {} THEN {TRUE}
                                ELSE IF attempts # {} THEN BOOLEAN ELSE {FALSE}) :
                      image_dirs' = IF made THEN image_dirs \cup {current_user.username}
                                    ELSE image_dirs
           ELSE UNCHANGED <<images, image_dirs>>
        /\ UNCHANGED <<requests, page_registry, users, current_user, user_dirs, logged_out>>

-----------------------------------------------------------------------------
(* Specification of the session and navigation system *)

\* The request handlers (threads or workers) that may run register_user at
\* the same time
Callers == {"c1", "c2"}

\* A caller that has no register_user call under way
Idle == [pc |-> "idle", username |-> "", password |-> "", found |-> FALSE,
         outcome |-> [success |-> FALSE, message |-> ""]]

Init ==
    /\ page_registry \in Registries
    /\ requests = [c \in Callers |-> Idle]
    /\ users = <<>>
    /\ current_user = AnonymousUser
    /\ user_dirs = {}
    /\ image_dirs = {}
    /\ images = [u \in Usernames |-> {}]
    /\ logged_out = FALSE
    /\ op = "init"
    /\ args = <<>>
    /\ result = <<>>
    /\ calls = <<>>

Clicks == {NoneInt} \cup {SomeInt(k) : k \in 0..MaxClicks}

Register == \E u \in Usernames, p \in Passwords : RegisterUser(u, p)

Login == \E u \in Usernames, p \in Passwords, f \in BOOLEAN : AuthenticateUser(u, p, f)

Navigate == \E p \in Pathnames, c \in Clicks : AuthGuardAndLogout(p, c)

ResolveDirectory == \E u \in Usernames : GetUserDirectoryCall(u)

Next == Register \/ Login \/ Navigate \/ GetCurrentUsernameCall \/ ResolveDirectory

Spec == Init /\ [][Next]_vars

-----------------------------------------------------------------------------
(* Specification of the upload pipeline: one registered user logs in and    *)
(* out and submits batches                                                  *)

\* The items a batch is built from, <<content, filename, the write fails>>:
\* two files that pass every step (one named in upper case below a
\* directory), a file with an unsupported extension, a file whose content is
\* no image, a file whose content has no comma, and a file whose write fails
Items ==
    {<<C_png, F_a_png, FALSE>>, <<C_png, F_d_E_JPG, FALSE>>, <<C_png, F_c_txt, FALSE>>,
     <<C_text, F_f_jpeg, FALSE>>, <<C_nocomma, F_a_png, FALSE>>, <<C_png, F_a_png, TRUE>>}

Batches == UNION {[1..n -> Items] : n \in 0..MaxBatch}

ContentsOf(b) == [i \in 1..Len(b) |-> b[i][1]]

FilenamesOf(b) == [i \in 1..Len(b) |-> b[i][2]]

WriteFailsOf(b) == [i \in 1..Len(b) |-> b[i][3]]

\* What the Upload component may hand the callback: the two lists of a
\* batch; or, for a batch with room for one more item, one list None or one
\* more content than filenames
UploadInputs(b) ==
    {<<SomeList(ContentsOf(b)), SomeList(FilenamesOf(b)), WriteFailsOf(b)>>}
    \cup (IF Len(b) = MaxBatch THEN {}
          ELSE {<<NoneList, SomeList(FilenamesOf(b)), WriteFailsOf(b)>>,
                <<SomeList(ContentsOf(b)), NoneList, WriteFailsOf(b)>>,
                <<SomeList(Append(ContentsOf(b), C_png)), SomeList(FilenamesOf(b)),
                  Append(WriteFailsOf(b), FALSE)>>})

InitUpload == Init /\ page_registry = AppRegistry

UploadRegister == RegisterUser("alice", "pw1")

UploadLogin == \E f \in BOOLEAN : AuthenticateUser("alice", "pw1", f)

UploadLogout == AuthGuardAndLogout(P_select_images, SomeInt(1))

Upload ==
    \E b \in Batches : \E in \in UploadInputs(b) :
        HandleImageUpload(in[1], in[2], in[3])

NextUpload == UploadRegister \/ UploadLogin \/ UploadLogout \/ Upload

SpecUpload == InitUpload /\ [][NextUpload]_vars

-----------------------------------------------------------------------------
(* The archive builder and the export callback *)

MaxImages == 3

\* An image array: its dtype and its pixel data
Array(dtype, pixels) == [dtype |-> dtype, pixels |-> pixels]

\* get_tiff_bytes: the TIFF stream of an array; encode_fails: Image.fromarray
\* or image.save raises
GetTiffBytes(array, encode_fails) ==
    IF encode_fails
    THEN Raises("Failed to convert image array to TIFF image bytes: ", <<>>)
    ELSE Returned(<<"TIFF", array.dtype, array.pixels>>)

\* np.array(Image.open(BytesIO(bytes))): the array a TIFF stream holds
TiffArray(bytes) == Array(bytes[2], bytes[3])

\* f"{idx}.tif"
TifName(idx) == <<idx, ".tif">>

\* zipf.writestr(filename, tiff_bytes)
ZipEntry(filename, bytes) == [filename |-> filename, bytes |-> bytes]

\* A loop that gives up on an image it cannot encode and carries on
RECURSIVE ZipLoopSkipsFailures(_, _, _, _)
ZipLoopSkipsFailures(image_arrays, encode_fails, k, entries) ==
    IF k > Len(image_arrays) THEN Returned(entries)
    ELSE ZipLoopSkipsFailures(image_arrays, encode_fails, k + 1,
             IF encode_fails[k] THEN entries
             ELSE Append(entries, ZipEntry(TifName(k - 1),
                                           GetTiffBytes(image_arrays[k], FALSE).value)))

\* for idx, image in enumerate(image_arrays), from the k-th image (idx = k - 1)
\* on: the entries written, or what get_tiff_bytes raised
RECURSIVE ZipLoop(_, _, _, _)
ZipLoop(image_arrays, encode_fails, k, entries) ==
    IF k > Len(image_arrays) THEN Returned(entries)
    ELSE IF encode_fails[k] THEN GetTiffBytes(image_arrays[k], TRUE)
    ELSE ZipLoop(image_arrays, encode_fails, k + 1,
                 Append(entries, ZipEntry(TifName(k - 1),
                                          GetTiffBytes(image_arrays[k], FALSE).value)))

\* An archive whose entries are numbered from 1
CreateTifZipArchiveFromOne(image_arrays, encode_fails) ==
    LET loop == ZipLoop(image_arrays, encode_fails, 1, <<>>)
    IN  IF loop.ok
        THEN Returned([k \in 1..Len(loop.value) |->
                          ZipEntry(TifName(k), loop.value[k].bytes)])
        ELSE Raises("Failed to create TIFF zip archive: ", <<loop.error>>)

\* create_tif_zip_archive: the entries of the archive it returns, or the
\* IOError it raises
CreateTifZipArchive(image_arrays, encode_fails) ==
    LET loop == ZipLoop(image_arrays, encode_fails, 1, <<>>)
    IN  IF loop.ok THEN Returned(loop.value)
        ELSE Raises("Failed to create TIFF zip archive: ", <<loop.error>>)

\* The call of create_tif_zip_archive on its own
CreateTifZipArchiveCall(image_arrays, encode_fails) ==
    /\ op = "init"
    /\ op' = "create_tif_zip_archive"
    /\ args' = [image_arrays |-> image_arrays, encode_fails |-> encode_fails]
    /\ result' = CreateTifZipArchive(image_arrays, encode_fails)
    /\ calls' = <<>>
    /\ UNCHANGED <<requests, page_registry, users, current_user, user_dirs, image_dirs, images,
                   logged_out>>

\* os.listdir(folder_path): the names of the folder in some order
ListDir(names) ==
    {l \in [1..Cardinality(names) -> names] :
        \A i, j \in 1..Cardinality(names) : l[i] = l[j] => i = j}

\* np.array(img) of a stored file: the pixels written under that name
ImageArrayOf(filename) == Array("uint8", filename)

\* get_image_arrays_from_folder
GetImageArraysFromFolder(listing) ==
    LET tifs == SelectSeq(listing, LAMBDA f : EndsWith(f, <<".", "t", "i", "f">>))
    IN  [k \in 1..Len(tifs) |-> ImageArrayOf(tifs[k])]

NoDownload == [none |-> TRUE, filename |-> "", content |-> <<>>, type |-> ""]

\* base64.b64encode(zip_bytes).decode("utf-8")
B64Encode(bytes) == <<"base64", bytes>>

\* _create_download_zip of the archive create_tif_zip_archive returned
CreateDownloadZip(zip_archive) ==
    [none |-> FALSE, filename |-> "images.zip", content |-> B64Encode(zip_archive),
     type |-> "application/zip"]

NoStatus == [type |-> "", message |-> "", errors |-> <<>>]

DownloadFailed(e) ==
    [type |-> "error", message |-> "Failed to download images.",
     errors |-> <<[error |-> e.error, detail |-> e.detail]>>]

ImagesReady == [type |-> "success", message |-> "Images ready for review.", errors |-> <<>>]

\* variant: every return of the callback carries the redirect to the review page
ReviewedAlwaysRedirects(download, pathname, status) ==
    [download |-> download, pathname |-> RedirectTo(P_review_images), status |-> status]

\* What download_images_and_review returns: download data, pathname, status
Reviewed(download, pathname, status) ==
    [download |-> download, pathname |-> pathname, status |-> status]

\* download_images_and_review as a function of its inputs, the session and
\* the disk; listing: what os.listdir returns for the images directory
DownloadAndReview(cu, udirs, idirs, n_clicks, contents, listing, encode_fails) ==
    LET arrays == GetImageArraysFromFolder(listing)
        zip == CreateTifZipArchive(arrays, encode_fails)
    IN  IF ~TruthyInt(n_clicks) \/ n_clicks.n <= 0 \/ contents = SomeList(<<>>)
        THEN Reviewed(NoDownload, NoUpdate, NoStatus)
        ELSE IF ~IsAuthenticated(cu)
        THEN Reviewed(NoDownload, NoUpdate,
                      DownloadFailed(Raises("No authenticated user found", <<>>)))
        ELSE IF cu.username \notin udirs
        THEN Reviewed(NoDownload, NoUpdate,
                      DownloadFailed(Raises("User directory does not exist: ", <<cu.username>>)))
        ELSE IF cu.username \notin idirs
        THEN Reviewed(NoDownload, NoUpdate,
                      DownloadFailed(Raises("No such file or directory: ", <<cu.username>>)))
        ELSE IF ~zip.ok
        THEN Reviewed(NoDownload, NoUpdate, DownloadFailed(zip))
        ELSE Reviewed(CreateDownloadZip(zip.value), RedirectTo(P_review_images), ImagesReady)

\* The files os.listdir finds in the caller's images directory
StoredImages ==
    IF IsAuthenticated(current_user) /\ current_user.username \in image_dirs
    THEN images[current_user.username] ELSE {}

DownloadImagesAndReview(n_clicks, contents, listing, encode_fails) ==
    /\ op' = "download_images_and_review"
    /\ args' = [n_clicks |-> n_clicks, contents |-> contents, listing |-> listing,
                encode_fails |-> encode_fails]
    /\ result' = DownloadAndReview(current_user, user_dirs, image_dirs, n_clicks, contents,
                                   listing, encode_fails)
    /\ calls' = <<>>
    /\ UNCHANGED <<requests, page_registry, users, current_user, user_dirs, image_dirs, images,
                   logged_out>>

-----------------------------------------------------------------------------
(* Specification of the archive builder on its own *)

\* Arrays as the tests build them
Arrays == {Array("uint8", <<1, 2, 3>>), Array("uint8", <<4, 5, 6>>),
           Array("uint16", <<4, 5, 6>>)}

ImageLists == UNION {[1..n -> Arrays] : n \in 0..MaxImages}

InitArchive == Init /\ page_registry = AppRegistry

BuildArchive ==
    \E image_arrays \in ImageLists : \E encode_fails \in [1..Len(image_arrays) -> BOOLEAN] :
        CreateTifZipArchiveCall(image_arrays, encode_fails)

NextArchive == BuildArchive

SpecArchive == InitArchive /\ [][NextArchive]_vars

-----------------------------------------------------------------------------
(* Specification of upload followed by export: one registered user logs in  *)
(* and out, uploads single files and asks for the archive                   *)

\* <<content, filename, the write fails>>: files stored as b.tif, e.tif,
\* g.TIF and a.png, contents that do not decode, and a write that fails
ExportItems ==
    {<<C_png, F_b_tif, FALSE>>, <<C_png, F_up_e_tif, FALSE>>, <<C_png, F_g_TIF, FALSE>>,
     <<C_png, F_a_png, FALSE>>, <<C_split, F_a_png, FALSE>>, <<C_emptybody, F_a_png, FALSE>>,
     <<C_nocomma, F_a_png, FALSE>>, <<C_png, F_b_tif, TRUE>>}

\* The contents property of the Upload component when the button is clicked
ExportContents == {NoneList, SomeList(<<>>), SomeList(<<C_png>>)}

ExportRegister == RegisterUser("alice", "pw1")

ExportLogin == \E f \in BOOLEAN : AuthenticateUser("alice", "pw1", f)

ExportLogout == AuthGuardAndLogout(P_select_images, SomeInt(1))

ExportUpload ==
    \E it \in ExportItems :
        HandleImageUpload(SomeList(<<it[1]>>), SomeList(<<it[2]>>), <<it[3]>>)

Export ==
    \E n_clicks \in Clicks, contents \in ExportContents, listing \in ListDir(StoredImages) :
        \E encode_fails \in [1..Len(GetImageArraysFromFolder(listing)) -> BOOLEAN] :
            DownloadImagesAndReview(n_clicks, contents, listing, encode_fails)

NextExport == ExportRegister \/ ExportLogin \/ ExportLogout \/ ExportUpload \/ Export

SpecExport == InitArchive /\ [][NextExport]_vars

-----------------------------------------------------------------------------
(* Storage paths: where the directory of a username lies on disk.  In this   *)
(* section a username is a sequence of characters and a directory is the     *)
(* sequence of the components of its path below the project root.            *)

\* Usernames typed into the registration form: "alice", "bob", "./alice",
\* "alice/images" and ".."
N_alice == <<"a", "l", "i", "c", "e">>

N_bob == <<"b", "o", "b">>

N_dot_alice == <<".", "/">> \o N_alice

N_images == <<"i", "m", "a", "g", "e", "s">>

N_alice_images == N_alice \o <<"/">> \o N_images

N_dotdot == <<".", ".">>

StorageUsernames == {N_alice, N_bob, N_dot_alice, N_alice_images, N_dotdot}

\* DEFAULT_USER_BASE_FOLDER: <project root>/data/users
DEFAULT_USER_BASE_FOLDER == << <<"d", "a", "t", "a">>, <<"u", "s", "e", "r", "s">> >>

\* The parts of a string between its "/" characters; cur: the part being read
RECURSIVE SplitPath(_, _, _)
SplitPath(s, i, cur) ==
    IF i > Len(s) THEN <<cur>>
    ELSE IF s[i] = "/" THEN <<cur>> \o SplitPath(s, i + 1, <<>>)
    ELSE SplitPath(s, i + 1, Append(cur, s[i]))

\* The components pathlib keeps of a relative name: empty parts and "." are
\* dropped, ".." is kept
PathParts(name) ==
    SelectSeq(SplitPath(name, 1, <<>>), LAMBDA c : c # <<>> /\ c # <<".">>)

\* base / name for a relative name
JoinPath(base, name) == base \o PathParts(name)

\* The directory the file system reaches by a path: ".." steps to the parent
RECURSIVE ResolvePath(_, _, _)
ResolvePath(path, i, reached) ==
    IF i > Len(path) THEN reached
    ELSE IF path[i] = N_dotdot
    THEN ResolvePath(path, i + 1,
                     IF reached = <<>> THEN <<>> ELSE SubSeq(reached, 1, Len(reached) - 1))
    ELSE ResolvePath(path, i + 1, Append(reached, path[i]))

\* DEFAULT_USER_BASE_FOLDER / username, as create_user_directory and
\* get_user_directory compute it
UserDirectory(username) ==
    ResolvePath(JoinPath(DEFAULT_USER_BASE_FOLDER, username), 1, <<>>)

\* Path(user_dir, "images") of _process_uploaded_images and
\* download_images_and_review
ImageDirectory(username) ==
    ResolvePath(Append(JoinPath(DEFAULT_USER_BASE_FOLDER, username), N_images), 1, <<>>)

\* create_user_directory for a registered username; user_dirs holds the paths
\* of the directories made so far (mkdir with parents and exist_ok never
\* fails because the directory is there already)
CreateUserDirectoryCall(username) ==
    /\ username \in DOMAIN users
    /\ op' = "create_user_directory"
    /\ args' = [username |-> username]
    /\ user_dirs' = user_dirs \cup {UserDirectory(username)}
    /\ result' = [user_dir |-> UserDirectory(username),
                  image_dir |-> ImageDirectory(username)]
    /\ calls' = <<>>
    /\ UNCHANGED <<requests, page_registry, users, current_user, image_dirs, images, logged_out>>

-----------------------------------------------------------------------------
(* Specification of registration and directory creation over path-like       *)
(* usernames                                                                  *)

InitStorage == Init /\ page_registry = AppRegistry

StorageRegister == \E u \in StorageUsernames : RegisterUser(u, "pw1")

StorageCreate == \E u \in StorageUsernames : CreateUserDirectoryCall(u)

NextStorage == StorageRegister \/ StorageCreate

SpecStorage == InitStorage /\ [][NextStorage]_vars

-----------------------------------------------------------------------------
(* register_user run by concurrent callers: the existence query and the      *)
(* commit are separate steps, and each caller has a database session of its  *)
(* own                                                                        *)

RegisterSuccess ==
    [success |-> TRUE,
     message |-> "Registration successful. You can now log in with your new account."]

RegisterRefusal == [success |-> FALSE, message |-> "Username already exists"]

\* what the caller sees when commit() fails on the unique username column
RegisterIntegrityError ==
    [success |-> FALSE, message |-> "raised IntegrityError: UNIQUE constraint failed"]

\* The existence query of a call; a row found ends the call with the refusal
RegisterUserQuery(c, username, password) ==
    /\ requests[c].pc # "queried"
    /\ \E found \in {UserExists(users, username)} :
          /\ requests' = [requests EXCEPT ![c] =
                            [pc |-> IF found THEN "done" ELSE "queried",
                             username |-> username, password |-> password,
                             found |-> found,
                             outcome |-> IF found THEN RegisterRefusal ELSE Idle.outcome]]
          /\ result' = IF found THEN RegisterRefusal ELSE Idle.outcome
    /\ op' = "register_user: query"
    /\ args' = [caller |-> c, username |-> username, password |-> password]
    /\ calls' = <<>>
    /\ UNCHANGED <<page_registry, users, current_user, user_dirs, image_dirs, images,
                   logged_out>>

\* session.add and session.commit of a call whose query found no row; the
\* unique constraint on username rejects a second row
RegisterUserCommit(c) ==
    /\ requests[c].pc = "queried"
    /\ \E taken \in {requests[c].username \in DOMAIN users} :
          /\ users' = IF taken THEN users
                      ELSE [u \in DOMAIN users \cup {requests[c].username} |->
                               IF u = requests[c].username
                               THEN GeneratePasswordHash(requests[c].password)
                               ELSE users[u]]
          /\ requests' = [requests EXCEPT ![c].pc = "done",
                             ![c].outcome = IF taken THEN RegisterIntegrityError
                                            ELSE RegisterSuccess]
          /\ result' = IF taken THEN RegisterIntegrityError ELSE RegisterSuccess
    /\ op' = "register_user: commit"
    /\ args' = [caller |-> c, username |-> requests[c].username,
                password |-> requests[c].password]
    /\ calls' = <<>>
    /\ UNCHANGED <<page_registry, current_user, user_dirs, image_dirs, images, logged_out>>

-----------------------------------------------------------------------------
(* Specification of concurrent registration *)

InitRegistration == Init /\ page_registry = AppRegistry

Query == \E c \in Callers, u \in Usernames, p \in Passwords : RegisterUserQuery(c, u, p)

Commit == \E c \in Callers : RegisterUserCommit(c)

NextRegistration == Query \/ Commit

SpecRegistration == InitRegistration /\ [][NextRegistration]_vars

-----------------------------------------------------------------------------
(* Properties of the navigation guard (checked under Spec) *)

GuardRan == op = "auth_guard_and_logout"

NoLogoutSignal == GuardRan /\ ~TruthyInt(args.logout_clicks)

LogoutCalled == \E k \in 1..Len(calls) : calls[k] = Call("logout")

LocationOfRequest == GetLocation(page_registry, args.pathname)

\* The expectations of test_auth_guard_redirects_when_not_authenticated
\* that do not depend on the registry in use
UnauthenticatedTable ==
    /\ args.pathname \in {P_select_images, P_review_images, P_unknown, P_home}
          => result = RedirectTo(P_login)
    /\ args.pathname \in {P_login, P_register} => result = NoUpdate

\* The expectations of test_auth_guard_redirects_when_authenticated
AuthenticatedTable ==
    /\ args.pathname \in {P_login, P_register, P_home, P_unknown}
          => result = RedirectTo(P_select_images)
    /\ args.pathname \in {P_select_images, P_review_images} => result = NoUpdate

\* C1: without a logout signal an unauthenticated request is redirected to
\* "/login" when the location of its path is not auth (app pages, the home
\* page, unknown paths) and is left alone (no_update) when it is auth; logout()
\* is not called and the session stays unauthenticated.
C1_UnauthenticatedGuard ==
    (NoLogoutSignal /\ ~args.authenticated) =>
        /\ result = IF LocationOfRequest = "auth" THEN NoUpdate ELSE RedirectTo(P_login)
        /\ UnauthenticatedTable
        /\ ~LogoutCalled
        /\ current_user = AnonymousUser

C1_Witness ==
    /\ NoLogoutSignal /\ ~args.authenticated
    /\ page_registry = TestRegistry
    /\ args.pathname = P_home
    /\ LocationOfRequest = "home"
    /\ result = RedirectTo(P_login)

\* C2: without a logout signal an authenticated request is redirected to
\* "/select-images" when the location of its path is not app (auth pages, the
\* home page, unknown paths) and is left alone when it is app; logout() is not
\* called and the session stays authenticated.
C2_AuthenticatedGuard ==
    (NoLogoutSignal /\ args.authenticated) =>
        /\ result = IF LocationOfRequest = "app" THEN NoUpdate
                    ELSE RedirectTo(P_select_images)
        /\ AuthenticatedTable
        /\ ~LogoutCalled
        /\ IsAuthenticated(current_user)

C2_Witness ==
    /\ NoLogoutSignal /\ args.authenticated
    /\ args.pathname = P_unknown
    /\ LocationOfRequest = NoLocation
    /\ result = RedirectTo(P_select_images)

\* C3: with a logout signal (logout_clicks >= 1) the guard calls logout() and
\* returns the redirect "/login" for every path and every prior session state,
\* and it does so before it reads the session or classifies the path.
C3_LogoutFirst ==
    (GuardRan /\ TruthyInt(args.logout_clicks)) =>
        /\ result = RedirectTo(P_login)
        /\ calls = <<Call("logout")>>
        /\ current_user = AnonymousUser

C3_Witness ==
    /\ GuardRan /\ args.logout_clicks = SomeInt(MaxClicks)
    /\ args.authenticated
    /\ args.pathname = P_select_images
    /\ result = RedirectTo(P_login)
    /\ current_user = AnonymousUser

-----------------------------------------------------------------------------
(* Properties of the upload callback (checked under SpecUpload) *)

UploadRan == op = "handle_image_upload"

\* handle_image_upload leaves the session alone, so the session after the call
\* is the session it ran in
UploadAuthenticated == UploadRan /\ IsAuthenticated(current_user)

\* Both lists were supplied and neither is empty
InputGiven == TruthyList(args.contents) /\ TruthyList(args.filenames)

\* The number of (content, filename) pairs submitted
NumItems == Min(Len(args.contents.list), Len(args.filenames.list))

ItemIndices == [i \in 1..NumItems |-> i]

\* Item i passes the extension check, decodes, holds an image and is written
PassesAllSteps(i) ==
    /\ ValidateFileExtension(args.filenames.list[i]).ok
    /\ DecodeBase64Image(args.contents.list[i]).ok
    /\ ValidateImageContent(DecodeBase64Image(args.contents.list[i]).value).ok
    /\ ~args.write_fails[i]

FailsAStep(i) == ~PassesAllSteps(i)

PassingItems == SelectSeq(ItemIndices, PassesAllSteps)

FailingItems == SelectSeq(ItemIndices, FailsAStep)

\* The stored names of the passing items and the names of the failing items,
\* both in input order
ExpectedSaved == [k \in 1..Len(PassingItems) |-> Basename(args.filenames.list[PassingItems[k]])]

ExpectedFailed == [k \in 1..Len(FailingItems) |-> args.filenames.list[FailingItems[k]]]

ErrorFilenames == [k \in 1..Len(result.errors) |-> result.errors[k].filename]

LoginRequiredResponse ==
    [type |-> "error", message |-> "You must be logged in to upload images.",
     valid_files |-> <<>>, errors |-> <<>>]

NoFilesResponse ==
    [type |-> "empty", message |-> "No files uploaded", valid_files |-> <<>>, errors |-> <<>>]

NothingWritten == images' = images /\ image_dirs' = image_dirs /\ user_dirs' = user_dirs

\* C5: an unauthenticated caller gets the error response "You must be logged
\* in to upload images." with no files and no errors whatever the payloads;
\* the only call made is the one session check, so no file is decoded,
\* validated or written.
C5_UnauthenticatedUpload ==
    /\ []((UploadRan /\ ~IsAuthenticated(current_user)) =>
            /\ result = LoginRequiredResponse
            /\ calls = <<Call("is_authenticated")>>)
    /\ [][(op' = "handle_image_upload" /\ ~IsAuthenticated(current_user)) =>
            NothingWritten]_vars

C5_Witness ==
    /\ UploadRan /\ ~IsAuthenticated(current_user)
    /\ args.contents = SomeList(<<C_png, C_png>>)
    /\ args.filenames = SomeList(<<F_a_png, F_d_E_JPG>>)
    /\ result.type = "error"
    /\ images["alice"] = {}

\* The invariant of BatchResult as the specification states it
BatchResultInvariant ==
    /\ result.type = "success" <=> (result.errors = <<>> /\ result.valid_files # <<>>)
    /\ result.type = "partial_success" <=> (result.errors # <<>> /\ result.valid_files # <<>>)
    /\ result.type = "error" <=> (result.valid_files = <<>> /\ InputGiven)
    /\ result.type = "empty" <=> ~InputGiven

\* C6 as claimed: every result of handle_image_upload satisfies the invariant.
C6_Claimed == UploadRan => BatchResultInvariant

\* C6, amended: every result returned to an authenticated caller satisfies the
\* invariant; an unauthenticated caller gets kind error with no saved files,
\* also when no input was supplied.
C6_BatchResultInvariant ==
    UploadRan =>
        IF IsAuthenticated(current_user) THEN BatchResultInvariant
        ELSE result.type = "error" /\ result.valid_files = <<>>

C6_Witness ==
    /\ UploadAuthenticated
    /\ args.filenames = SomeList(<<F_a_png, F_c_txt>>)
    /\ result.type = "partial_success"
    /\ result.valid_files # <<>> /\ result.errors # <<>>

\* C7 as claimed: for an authenticated batch savedFiles holds exactly the items
\* that pass all four steps, wherever the failing items sit; N files that pass
\* give success with N saved files and no errors, and [valid, bad-extension]
\* gives partial_success with the valid file saved.
C7_Claimed ==
    (UploadAuthenticated /\ InputGiven) =>
        /\ result.valid_files = ExpectedSaved
        /\ (FailingItems = <<>>) =>
              /\ result.type = "success"
              /\ Len(result.valid_files) = NumItems
              /\ result.errors = <<>>
        /\ (args.contents = SomeList(<<C_png, C_png>>)
            /\ args.filenames = SomeList(<<F_a_png, F_c_txt>>)
            /\ args.write_fails = <<FALSE, FALSE>>) =>
              /\ result.type = "partial_success"
              /\ result.valid_files = <<F_a_png>>
              /\ Len(result.errors) = 1
              /\ result.errors[1].filename = F_c_txt
              /\ result.errors[1].error = "Unsupported file type: "

FileEntries == SelectSeq(result.errors, LAMBDA e : e.scope = "file")

\* C8: savedFiles lists the saved items in the order of the input and errors
\* lists the failed items in the order of the input: when the items were
\* processed, the saved names are the stored names of the passing items in
\* input order and the error entries name the failing items in input order;
\* when the batch failed as a whole, no item is listed at all.
C8_InputOrder ==
    (UploadAuthenticated /\ InputGiven) =>
        IF FileEntries = result.errors
        THEN /\ result.valid_files = ExpectedSaved
             /\ ErrorFilenames = ExpectedFailed
        ELSE /\ result.valid_files = <<>>
             /\ FileEntries = <<>>

C8_Witness ==
    /\ UploadAuthenticated
    /\ args.filenames = SomeList(<<F_d_E_JPG, F_a_png>>)
    /\ result.valid_files = <<Basename(F_d_E_JPG), F_a_png>>

\* C9 as claimed: every item of an authenticated, nonempty batch yields
\* exactly one outcome, so |savedFiles| + |errors| is the number of items, and
\* no step runs twice for an item.
C9_Claimed ==
    (UploadAuthenticated /\ InputGiven) =>
        /\ Len(result.valid_files) + Len(result.errors) = NumItems
        /\ Len(result.valid_files) = Len(PassingItems)
        /\ ErrorFilenames = ExpectedFailed
        /\ \A k1, k2 \in 1..Len(calls) : calls[k1] = calls[k2] => k1 = k2

\* C10: an authenticated caller who supplies no contents or no filenames (None
\* or an empty list) gets the response "No files uploaded" of kind empty, and
\* nothing is looked up, processed or written.
C10_EmptyUpload ==
    /\ []((UploadAuthenticated /\ ~InputGiven) =>
            /\ result = NoFilesResponse
            /\ calls = <<Call("is_authenticated")>>)
    /\ [][(op' = "handle_image_upload" /\ IsAuthenticated(current_user)
           /\ ~(TruthyList(args'.contents) /\ TruthyList(args'.filenames))) =>
            NothingWritten]_vars

C10_Witness ==
    /\ UploadAuthenticated
    /\ args.contents = SomeList(<<C_png>>)
    /\ args.filenames = NoneList
    /\ result.type = "empty"

\* The two lists were both supplied and differ in length
LengthsDiffer ==
    /\ ~args.contents.none /\ ~args.filenames.none
    /\ Len(args.contents.list) # Len(args.filenames.list)

\* C11 as claimed: an authenticated upload whose contents and filenames lists
\* have different lengths is treated as "no files": the result has kind
\* empty and no item of either list is processed or persisted.
C11_Claimed ==
    (UploadAuthenticated /\ LengthsDiffer) =>
        /\ result = NoFilesResponse
        /\ calls = <<Call("is_authenticated")>>

\* The file name ends, whatever its letter case, in a supported extension
SupportedSuffix(filename) ==
    \E ext \in {<<".", "t", "i", "f">>, <<".", "t", "i", "f", "f">>, <<".", "p", "n", "g">>,
                <<".", "j", "p", "g">>, <<".", "j", "p", "e", "g">>} :
        EndsWith(Lower(filename), ext)

\* The per-file loop reached item i
ItemChecked(i) == <<"_validate_file_extension", i>> \in {calls[k] : k \in 1..Len(calls)}

CallsOfItem(i) == SelectSeq(calls, LAMBDA c : c[2] = i)

UnsupportedEntry(filename) ==
    [scope |-> "file", filename |-> filename,
     error |-> "Unsupported file type: ", detail |-> filename]

\* The error entry of item i: entries are appended in input order, so it is
\* the entry at the rank of i among the items that failed
EntryOfItem(i) == result.errors[Cardinality({j \in 1..i : FailsAStep(j)})]

\* C12: an item that the loop reaches and whose lowercased filename does not
\* end in .tif, .tiff, .png, .jpg or .jpeg gets the error entry
\* "<filename>: Unsupported file type: <filename>" and only its extension
\* check runs (it is neither decoded nor persisted); an item whose filename
\* ends in a supported suffix in any letter case gets no such entry, so
\* "d/E.JPG" with image content is saved.
C12_ExtensionCheck ==
    UploadAuthenticated =>
        \A i \in 1..NumItems : ItemChecked(i) =>
            LET filename == args.filenames.list[i]
            IN  /\ ~SupportedSuffix(filename) =>
                      /\ EntryOfItem(i) = UnsupportedEntry(filename)
                      /\ CallsOfItem(i) = <<<<"_validate_file_extension", i>>>>
                /\ SupportedSuffix(filename) =>
                      /\ Len(CallsOfItem(i)) >= 2
                      /\ PassesAllSteps(i) => Basename(filename) \in images[current_user.username]
                      /\ FailsAStep(i) => EntryOfItem(i).error # "Unsupported file type: "
                /\ SupportedSuffix(F_d_E_JPG) /\ ~SupportedSuffix(F_c_txt)

C12_Witness ==
    /\ UploadAuthenticated
    /\ args.filenames = SomeList(<<F_c_txt, F_d_E_JPG>>)
    /\ result.errors = <<UnsupportedEntry(F_c_txt)>>
    /\ result.valid_files = <<Basename(F_d_E_JPG)>>
    /\ CallsOfItem(1) = <<<<"_validate_file_extension", 1>>>>
    /\ Len(CallsOfItem(2)) = 4

-----------------------------------------------------------------------------
(* Properties of the decode and persist steps (checked under SpecExport) *)

\* The single item of the upload that ran
TheContent == args.contents.list[1]

TheFilename == args.filenames.list[1]

OneItemChecked == UploadAuthenticated /\ InputGiven /\ ItemChecked(1)

Commas(s) == {i \in 1..Len(s) : s[i] = ","}

\* What follows the first comma of s
AfterFirstComma(s) ==
    SubSeq(s, (CHOOSE i \in Commas(s) : \A j \in Commas(s) : i <= j) + 1, Len(s))

DecodeFailure(detail) ==
    [ok |-> FALSE, value |-> <<>>, error |-> "Failed to decode base64 image: ",
     detail |-> <<detail>>]

\* C13: decode_base64_image decodes only what follows the first comma of its
\* input; it raises a ValueError prefixed "Failed to decode base64 image: "
\* when the input has no comma and when nothing follows the comma (the
\* decoded body is empty), and the pipeline turns that failure into the entry
\* "<filename>: Failed to decode base64 image: <detail>".
C13_Decode ==
    OneItemChecked =>
        LET decoded == DecodeBase64Image(TheContent)
        IN  /\ Commas(TheContent) = {} =>
                  decoded = DecodeFailure("Input string does not contain a comma to split header and data.")
            /\ (Commas(TheContent) # {} /\ AfterFirstComma(TheContent) = <<>>) =>
                  decoded = DecodeFailure("Decoded image content is empty.")
            /\ decoded.ok =>
                  /\ Commas(TheContent) # {}
                  /\ decoded.value = B64Decode(AfterFirstComma(TheContent)).bytes
                  /\ decoded.value # <<>>
            /\ TheContent = C_split => decoded.value = <<137, 80, 78>>
            /\ (~decoded.ok /\ SupportedSuffix(TheFilename)) =>
                  /\ result.type = "error"
                  /\ result.errors = <<[scope |-> "file", filename |-> TheFilename,
                                        error |-> "Failed to decode base64 image: ",
                                        detail |-> decoded.detail]>>
                  /\ CallsOfItem(1) = <<<<"_validate_file_extension", 1>>,
                                        <<"decode_base64_image", 1>>>>

C13_Witness ==
    /\ OneItemChecked
    /\ TheContent = C_emptybody
    /\ result.errors = <<[scope |-> "file", filename |-> F_a_png,
                          error |-> "Failed to decode base64 image: ",
                          detail |-> <<"Decoded image content is empty.">>]>>

\* A name that stays inside the directory it is joined to
PlainName(name) == name # <<>> /\ name # <<".">> /\ name # <<".", ".">>
                   /\ \A i \in 1..Len(name) : name[i] # "/"

\* C14: every file the upload pipeline writes lies directly in the images
\* directory of the uploading user under a name without a path separator:
\* the stored name and the name in savedFiles are the basename of the
\* uploaded filename, also for "../e.tif", and an upload changes no other
\* user's files.
C14_BasenameOnly ==
    /\ [](/\ \A u \in Usernames : \A name \in images[u] : PlainName(name)
          /\ \A u \in Usernames : images[u] # {} => (u \in image_dirs /\ u \in user_dirs)
          /\ UploadRan =>
                \A k \in 1..Len(result.valid_files) :
                    /\ PlainName(result.valid_files[k])
                    /\ result.valid_files[k] \in images[current_user.username]
          /\ (OneItemChecked /\ TheFilename = F_up_e_tif /\ result.type = "success") =>
                result.valid_files = <<<<"e", ".", "t", "i", "f">>>>)
    /\ [][images' # images =>
            /\ op' = "handle_image_upload"
            /\ \A u \in Usernames \ {current_user.username} : images'[u] = images[u]
            /\ images'[current_user.username] \ images[current_user.username]
                  \subseteq {result'.valid_files[k] : k \in 1..Len(result'.valid_files)}]_vars

C14_Witness ==
    /\ OneItemChecked
    /\ TheFilename = F_up_e_tif
    /\ result.valid_files = <<<<"e", ".", "t", "i", "f">>>>
    /\ images["alice"] = {<<"e", ".", "t", "i", "f">>}

-----------------------------------------------------------------------------
(* Storage failures (checked under SpecUpload) *)

\* The save of item i was attempted and a file-system operation of it raised
SaveFailed(i) ==
    /\ <<"save_image_from_bytes", i>> \in {calls[k] : k \in 1..Len(calls)}
    /\ args.write_fails[i]

\* C15 as claimed: an I/O failure while persisting one file escalates to a
\* batch-level error: the result has kind error and no file of the batch is
\* reported saved, rather than the failure being that one file's entry.
C15_Claimed ==
    (UploadAuthenticated /\ InputGiven /\ \E i \in 1..NumItems : SaveFailed(i)) =>
        /\ result.type = "error"
        /\ result.valid_files = <<>>
        /\ \A k \in 1..Len(result.errors) : result.errors[k].scope = "batch"

-----------------------------------------------------------------------------
(* Properties of the archive builder (checked under SpecArchive) *)

ArchiveBuilt == op = "create_tif_zip_archive"

SomeEncodeFails == \E k \in 1..Len(args.encode_fails) : args.encode_fails[k]

C17_BuildAborts ==
    (ArchiveBuilt /\ SomeEncodeFails) =>
        /\ ~result.ok
        /\ result.value = <<>>
        /\ result.error = "Failed to create TIFF zip archive: "
        /\ result.detail = <<"Failed to convert image array to TIFF image bytes: ">>

C17_Witness ==
    /\ ArchiveBuilt
    /\ Len(args.image_arrays) = 3
    /\ args.encode_fails = <<FALSE, TRUE, FALSE>>
    /\ ~result.ok

-----------------------------------------------------------------------------
(* Properties of the export callback (checked under SpecExport) *)

ExportRan == op = "download_images_and_review"

ExportTriggered == ExportRan /\ TruthyInt(args.n_clicks)

NoOp == result.download = NoDownload /\ result.pathname = NoUpdate

\* The archive a returned download holds
DownloadedEntries == result.download.content[2]

BuildFails == \E k \in 1..Len(args.encode_fails) : args.encode_fails[k]

\* C18 as claimed: an export trigger is a no-op when no file exists for the
\* caller or when the archive build fails; only otherwise does it return the
\* download {"images.zip", base64 of the archive, application/zip} and the
\* redirect to /review-images.
C18_Claimed ==
    ExportTriggered =>
        /\ (StoredImages = {} \/ BuildFails) => NoOp
        /\ ~NoOp =>
              /\ result.download.filename = "images.zip"
              /\ result.download.type = "application/zip"
              /\ result.download.content[1] = "base64"
              /\ result.pathname = RedirectTo(P_review_images)

\* C19 as claimed: the archive a following export returns has one entry for
\* every image stored in the caller's images directory, whatever supported
\* extension it was saved under.
C19_Claimed ==
    (ExportTriggered /\ ~NoOp) => Len(DownloadedEntries) = Cardinality(StoredImages)

-----------------------------------------------------------------------------
(* Properties of registration (checked under Spec) *)

RegistrationSucceeded ==
    [success |-> TRUE,
     message |-> "Registration successful. You can now log in with your new account."]

RegistrationRefused == [success |-> FALSE, message |-> "Username already exists"]

\* C20: register_user on a username that is not in the store adds it with
\* the given password and returns (True, "Registration successful. You can
\* now log in with your new account."); on a username in the store it
\* returns (False, "Username already exists") and leaves the store unchanged;
\* so every username keeps the password of its first registration.
C20_Register ==
    /\ [][op' = "register_user" =>
            IF args'.username \in DOMAIN users
            THEN result' = RegistrationRefused /\ users' = users
            ELSE /\ result' = RegistrationSucceeded
                 /\ DOMAIN users' = DOMAIN users \cup {args'.username}
                 /\ users'[args'.username] = <<"hash", args'.password>>]_vars
    /\ [][\A u \in DOMAIN users : u \in DOMAIN users' /\ users'[u] = users[u]]_vars

C20_Witness ==
    /\ op = "register_user"
    /\ args = [username |-> "alice", password |-> "pw2"]
    /\ result = RegistrationRefused
    /\ users["alice"] = <<"hash", "pw1">>

-----------------------------------------------------------------------------
(* Properties of login and of the session (checked under Spec) *)

LoginRan == op = "authenticate_user"

\* the credentials of the last call do not match a stored identity
BadCredentials(table, a) ==
    \/ a.username \notin DOMAIN table
    \/ table[a.username] # GeneratePasswordHash(a.password)

InvalidLogin == [success |-> FALSE, message |-> "Invalid username or password."]

\* C21: authenticate_user with an unknown username, or with a wrong password
\* for a known one, returns (False, "Invalid username or password."), the
\* same pair in both cases; it calls neither login_user nor
\* create_user_directory, so the session is left as it was (an unauthenticated
\* session stays unauthenticated) and no user directory is created.
C21_FailedLogin ==
    [][(op' = "authenticate_user" /\ BadCredentials(users, args'))
          => /\ result' = InvalidLogin
             /\ calls' = <<>>
             /\ current_user' = current_user
             /\ (~IsAuthenticated(current_user) => ~IsAuthenticated(current_user'))
             /\ user_dirs' = user_dirs]_vars

\* a wrong password for the registered alice, and an unknown bob, both refused
\* in an unauthenticated session without a directory
C21_Witness ==
    /\ LoginRan
    /\ "alice" \in DOMAIN users
    /\ "bob" \notin DOMAIN users
    /\ \/ args.username = "alice" /\ users["alice"] # GeneratePasswordHash(args.password)
       \/ args.username = "bob"
    /\ result = InvalidLogin
    /\ ~IsAuthenticated(current_user)
    /\ user_dirs = {}

LoginSucceeded == [success |-> TRUE, message |-> "Login successful. Redirecting..."]

\* what the caller of authenticate_user sees when create_user_directory raises
LoginRaised ==
    [success |-> FALSE, message |-> "raised IOError: Failed to create user directory"]

GoodCredentials(table, a) == ~BadCredentials(table, a)

\* number of calls of fn among the collaborator calls of the last operation
TimesCalled(fn, cs) == Cardinality({i \in 1..Len(cs) : cs[i] = Call(fn)})

\* The session after a login with good credentials: authenticated, and
\* get_current_username returns the username that logged in
SessionIsFor(cu, username) ==
    /\ IsAuthenticated(cu)
    /\ GetCurrentUsername(cu) = Gives(username)

UsernameAsked == op = "get_current_username"

\* the exception classes an exception of the given class is an instance of
ExceptionClasses(exception) ==
    IF exception = "PermissionError"
    THEN {"PermissionError", "OSError", "Exception", "BaseException"}
    ELSE IF exception = "ValueError"
    THEN {"ValueError", "Exception", "BaseException"}
    ELSE {exception}

\* C23 as stated: get_current_username called while no user is authenticated
\* raises a ValueError whose message matches "No authenticated user found",
\* and never returns a username.
C23_Claimed ==
    (UsernameAsked /\ ~args.authenticated)
        => /\ ~result.ok
           /\ "ValueError" \in ExceptionClasses(result.exception)
           /\ result.message = "No authenticated user found"

DirectoryResolved == op = "get_user_directory"

\* C24 as stated: get_user_directory returns <baseDir>/<username> and creates
\* that directory when it is absent, so resolving never fails merely because
\* the directory does not exist yet.
C24_Claimed ==
    DirectoryResolved
        => /\ result = Gives(args.username)
           /\ args.username \in user_dirs

Redirected == NoLogoutSignal /\ result.kind = "redirect"

\* the guard's answer to the browser following the redirect it was just
\* given: same session, no logout signal
FollowUp == Guard(page_registry, current_user, result.pathname, NoneInt)

\* the next event is the navigation to the path the guard redirected to
FollowsRedirect ==
    /\ Redirected
    /\ op' = "auth_guard_and_logout"
    /\ args'.pathname = result.pathname
    /\ ~TruthyInt(args'.logout_clicks)

\* C25: the guard has no redirect loop: with the registered page table,
\* whenever the guard (without a logout signal) answers with a redirect,
\* applying it to the redirect target under the same session returns
\* no_update and leaves the session as it is, so every navigation settles
\* after at most one redirect.
C25_NoRedirectLoop ==
    /\ [](Redirected => /\ FollowUp.ret = NoUpdate
                        /\ FollowUp.session = current_user)
    /\ [][FollowsRedirect => (result' = NoUpdate /\ current_user' = current_user)]_vars

\* an unauthenticated request for /select-images under the application's
\* registry was sent to /login, where the guard lets the request stand
C25_Witness ==
    /\ page_registry = AppRegistry
    /\ Redirected
    /\ ~args.authenticated
    /\ args.pathname = P_select_images
    /\ result = RedirectTo(P_login)
    /\ FollowUp.ret = NoUpdate

\* the guard has handled a logout click, and the next event is a navigation
\* that arrives with the same click count: no new click
StaleLogoutSignal ==
    /\ GuardRan
    /\ TruthyInt(args.logout_clicks)
    /\ op' = "auth_guard_and_logout"
    /\ args'.logout_clicks = args.logout_clicks

\* C26 as stated: a logout request is acted on once: a later navigation that
\* still carries the earlier nonzero n_clicks is decided by the session and
\* the path alone (an unauthenticated visit to an auth page stays) and does
\* not call logout() again.
C26_Claimed ==
    [][StaleLogoutSignal
          => /\ result' = GuardDecision(IsAuthenticated(current_user),
                                        GetLocation(page_registry, args'.pathname))
             /\ current_user' = current_user
             /\ Call("logout") \notin {calls'[k] : k \in 1..Len(calls')}]_vars

-----------------------------------------------------------------------------
(* Storage isolation (checked under SpecStorage) *)

\* path p lies strictly below directory q
Inside(p, q) == Len(p) > Len(q) /\ SubSeq(p, 1, Len(q)) = q

Registered == DOMAIN users

\* the directories of two usernames do not touch
Isolated(u, v) ==
    /\ UserDirectory(u) # UserDirectory(v)
    /\ ImageDirectory(u) # ImageDirectory(v)
    /\ ~Inside(UserDirectory(u), UserDirectory(v))
    /\ ~Inside(ImageDirectory(u), UserDirectory(v))

\* C27 as stated: for any two distinct usernames that register_user accepts
\* the user directories and their images subdirectories are distinct, neither
\* lies inside the other, and both lie under the base folder.
C27_Claimed ==
    /\ \A u \in Registered :
          /\ Inside(UserDirectory(u), DEFAULT_USER_BASE_FOLDER)
          /\ Inside(ImageDirectory(u), UserDirectory(u))
    /\ \A u, v \in Registered : u # v => Isolated(u, v)

-----------------------------------------------------------------------------
(* The export callback and the session (checked under SpecExport) *)

\* the status of the except branch: type error with one error string
ErrorStatus(status) ==
    /\ status.type = "error"
    /\ status.message = "Failed to download images."
    /\ Len(status.errors) = 1

\* C28: download_images_and_review never returns archive content or the
\* redirect to /review-images to an unauthenticated caller: for every click
\* count and contents value the download output is None, the pathname output
\* is no_update and the status is empty or of type error; the callback
\* returns these three outputs and does not raise, and it changes neither
\* the session nor the disk.
C28_NoExportWithoutLogin ==
    /\ []((ExportRan /\ ~IsAuthenticated(current_user))
            => /\ result.download = NoDownload
               /\ result.pathname = NoUpdate
               /\ \/ result.status = NoStatus
                  \/ ErrorStatus(result.status)
               /\ TruthyInt(args.n_clicks) /\ args.contents # SomeList(<<>>)
                     => result.status =
                            DownloadFailed(Raises("No authenticated user found", <<>>)))
    /\ [][op' = "download_images_and_review"
             => UNCHANGED <<current_user, user_dirs, image_dirs, images>>]_vars

\* after a logout, with an image of alice still on disk, the button is
\* clicked once with contents set: the caller gets the error status only
C28_Witness ==
    /\ ExportRan
    /\ ~IsAuthenticated(current_user)
    /\ images["alice"] # {}
    /\ args.n_clicks = SomeInt(1)
    /\ args.contents = SomeList(<<C_png>>)
    /\ result = Reviewed(NoDownload, NoUpdate,
                         DownloadFailed(Raises("No authenticated user found", <<>>)))

-----------------------------------------------------------------------------
(* Concurrent registration (checked under SpecRegistration) *)

\* both calls are over, both were for the same username, and both ran the
\* existence query before either committed: neither query found a row
Interleaved(a, b) ==
    /\ a # b
    /\ requests[a].pc = "done" /\ requests[b].pc = "done"
    /\ requests[a].username = requests[b].username
    /\ ~requests[a].found /\ ~requests[b].found

\* C29 as stated: when two register_user calls for the same new username
\* interleave, exactly one returns success, the other returns
\* (False, "Username already exists") without raising, and the store holds
\* the username.
C29_Claimed ==
    \A a, b \in Callers :
        Interleaved(a, b) =>
            /\ {requests[a].outcome, requests[b].outcome} = {RegisterSuccess, RegisterRefusal}
            /\ requests[a].username \in DOMAIN users

-----------------------------------------------------------------------------
(* The session and its storage directory (checked under SpecUpload) *)

\* the upload failed as a whole because the caller's directory is missing
DirectoryMissingError ==
    \E k \in 1..Len(result.errors) :
        /\ result.errors[k].scope = "batch"
        /\ result.errors[k].error = "User directory does not exist: "

\* C30 as stated: in every state reachable by register, login, logout and
\* upload operations a session that is authenticated for a username has that
\* username's directory on disk, so an authenticated upload never fails with
\* "User directory does not exist".
C30_Claimed ==
    /\ IsAuthenticated(current_user) => current_user.username \in user_dirs
    /\ (UploadAuthenticated /\ InputGiven) => ~DirectoryMissingError

=============================================================================
